---- MODULE Spec2Model ----
(***************************************************************************)
(* Model of the provable-gadget core of o1js:                              *)
(*   - src/lib/provable/merkle-tree-indexed.ts : IndexedMerkleMap node     *)
(*     cache (constructor, setLeafNode, getNode), the global empty-node    *)
(*     table (empty) and the low-node search (bisectUnique);               *)
(*   - src/lib/gadgets/range-check.ts : rangeCheck64, multiRangeCheck,     *)
(*     compactMultiRangeCheck and their two helpers.                       *)
(* Three specifications share the module: SpecBisect, SpecMap, SpecGadgets.*)
(***************************************************************************)
EXTENDS Integers, Sequences, FiniteSets, TLC

VARIABLES
    \* ---- bisectUnique (one call)
    values,       \* the strictly increasing sequence read through getValue
    target,       \* the searched value
    outOfRange,   \* what the accessor does outside [0, length): "undefined" | "throw"
    bPc,          \* "idle" | "loop" | "done"
    iLow, iHigh,  \* the search interval
    bRet,         \* returned {lowIndex, foundValue}
    bErr,         \* "none" | "TypeError"
    iters,        \* completed loop iterations of the current call (saturating)
    \* ---- IndexedMerkleMap and the global empty-node table
    emptyNodes,   \* module-level cache of empty nodes, emptyNodes[level + 1]
    emptyHashed,  \* emptyHashed[level + 1]: how often that entry was hashed and stored
    emptyRet,     \* the last call of empty(): its level and the value returned
    height,       \* this.height
    root,         \* this.root
    nodes,        \* this.data.nodes: nodes[level + 1] is a sparse array index -> hash
    written,      \* index -> leaf passed to the last setLeafNode(index, leaf)
    mapErr,       \* "none" | "InvariantViolation"
    \* ---- range-check gadgets (one call)
    op,           \* name of the last gadget called
    args,         \* its arguments (Fields)
    ret,          \* its return value (sequence of Fields)
    err,          \* "none" or the RangeViolation it threw
    gates         \* gate calls emitted by the last gadget call, in order

bisectVars == <<values, target, outOfRange, bPc, iLow, iHigh, bRet, bErr, iters>>
mapVars == <<emptyNodes, emptyHashed, emptyRet, height, root, nodes, written, mapErr>>
gadgetVars == <<op, args, ret, err, gates>>
vars == <<bisectVars, mapVars, gadgetVars>>

----------------------------------------------------------------------------
(* Bounds of the model *)
MaxLen == 4        \* longest sequence handed to bisectUnique
MaxKey == 5        \* keys and targets are drawn from 0..MaxKey
MaxHeight == 4     \* map heights are 1..MaxHeight
MaxIndex == 3      \* leaf indices are 0..MaxIndex (beyond the capacity of low maps)
MaxBits == 3       \* set bits over all arguments of one gadget call

\* JS `undefined`: an absent array entry. Keys and hashes are >= 0.
Undefined == -1

Max(S) == CHOOSE m \in S : \A k \in S : k <= m

----------------------------------------------------------------------------
(* bisectUnique *)

\* getValue over a JS array: an index outside [0, length) reads `undefined`.
getValue(seq, i) == IF i >= 0 /\ i < Len(seq) THEN seq[i + 1] ELSE Undefined

\* an accessor that dereferences the entry (leaves[i].key) throws instead
Throws(seq, i, oob) == oob = "throw" /\ ~(i >= 0 /\ i < Len(seq))

\* JS relational operators: any comparison with `undefined` is false
Gt(a, b) == a # Undefined /\ a > b
Lt(a, b) == a # Undefined /\ a < b
Le(a, b) == a # Undefined /\ a <= b

NoRet == [lowIndex |-> -2, foundValue |-> FALSE]

Thrown == [pc |-> "done", iLow |-> 0, iHigh |-> 0, ret |-> NoRet, err |-> "TypeError"]

\* lines 158-160: the interval and the two early returns
bisectEnter(seq, t, oob) ==
    LET length == Len(seq)
        lo == 0
        hi == length - 1
    IN  IF Throws(seq, lo, oob) THEN Thrown
        ELSE IF Gt(getValue(seq, lo), t)
        THEN [pc |-> "done", iLow |-> lo, iHigh |-> hi,
              ret |-> [lowIndex |-> -1, foundValue |-> FALSE], err |-> "none"]
        ELSE IF Throws(seq, hi, oob) THEN Thrown
        ELSE IF Lt(getValue(seq, hi), t)
        THEN [pc |-> "done", iLow |-> lo, iHigh |-> hi,
              ret |-> [lowIndex |-> hi, foundValue |-> FALSE], err |-> "none"]
        ELSE [pc |-> "loop", iLow |-> lo, iHigh |-> hi, ret |-> NoRet, err |-> "none"]

\* Math.ceil((iLow + iHigh) / 2)
iMidOf(lo, hi) == (lo + hi + 1) \div 2

bisectIter_StrictCompare(seq, t, oob, lo, hi) ==
    IF hi = lo
    THEN IF Throws(seq, lo, oob) THEN Thrown
         ELSE [pc |-> "done", iLow |-> lo, iHigh |-> hi,
               ret |-> [lowIndex |-> lo, foundValue |-> (getValue(seq, lo) = t)],
               err |-> "none"]
    ELSE LET iMid == iMidOf(lo, hi)
         IN  IF Throws(seq, iMid, oob) THEN Thrown
             ELSE IF Lt(getValue(seq, iMid), t)
             THEN [pc |-> "loop", iLow |-> iMid, iHigh |-> hi, ret |-> NoRet, err |-> "none"]
             ELSE [pc |-> "loop", iLow |-> lo, iHigh |-> iMid - 1, ret |-> NoRet, err |-> "none"]

\* lines 165-179: one iteration of the while (true) loop
bisectIter(seq, t, oob, lo, hi) ==
    IF hi = lo
    THEN IF Throws(seq, lo, oob) THEN Thrown
         ELSE [pc |-> "done", iLow |-> lo, iHigh |-> hi,
               ret |-> [lowIndex |-> lo, foundValue |-> (getValue(seq, lo) = t)],
               err |-> "none"]
    ELSE LET iMid == iMidOf(lo, hi)
         IN  IF Throws(seq, iMid, oob) THEN Thrown
             ELSE IF Le(getValue(seq, iMid), t)
             THEN [pc |-> "loop", iLow |-> iMid, iHigh |-> hi, ret |-> NoRet, err |-> "none"]
             ELSE [pc |-> "loop", iLow |-> lo, iHigh |-> iMid - 1, ret |-> NoRet, err |-> "none"]

\* the strictly increasing sequences over 0..MaxKey of length 0..MaxLen
RECURSIVE SortedSeq(_)
SortedSeq(S) == IF S = {} THEN <<>> ELSE LET m == Max(S) IN Append(SortedSeq(S \ {m}), m)

Sequences == {SortedSeq(S) : S \in {T \in SUBSET (0..MaxKey) : Cardinality(T) <= MaxLen}}

IterCap == MaxLen + 2

BisectCall(seq, t, oob) ==
    /\ bPc = "idle"
    /\ LET st == bisectEnter(seq, t, oob)
       IN  /\ values' = seq
           /\ target' = t
           /\ outOfRange' = oob
           /\ bPc' = st.pc
           /\ iLow' = st.iLow
           /\ iHigh' = st.iHigh
           /\ bRet' = st.ret
           /\ bErr' = st.err
           /\ iters' = 0
    /\ UNCHANGED <<mapVars, gadgetVars>>

BisectLoop ==
    /\ bPc = "loop"
    /\ LET st == bisectIter(values, target, outOfRange, iLow, iHigh)
       IN  /\ bPc' = st.pc
           /\ iLow' = IF st.pc = "loop" THEN st.iLow ELSE iLow
           /\ iHigh' = IF st.pc = "loop" THEN st.iHigh ELSE iHigh
           /\ bRet' = st.ret
           /\ bErr' = st.err
           /\ iters' = IF st.pc = "loop" /\ iters < IterCap THEN iters + 1 ELSE iters
    /\ UNCHANGED <<values, target, outOfRange, mapVars, gadgetVars>>

----------------------------------------------------------------------------
(* The hash function and the global table of empty nodes *)

\* PoseidonBigint.hash([left, right]): a pure function of two field elements
\* to one, over a small field; not commutative.
Hash(l, r) == ((l + 3) * (r + 7) + l) % 10007

\* JS `array[i] = v` on a dense array with i <= array.length
SetAt(seq, i, v) == IF i < Len(seq) THEN [seq EXCEPT ![i + 1] = v] ELSE Append(seq, v)

\* lines 133-134: the body of the loop of empty()
emptyFill(t, i) ==
    LET zero == t.emptyNodes[i]
    IN  [emptyNodes |-> SetAt(t.emptyNodes, i, Hash(zero, zero)),
         emptyHashed |-> SetAt(t.emptyHashed, i,
                               IF i < Len(t.emptyHashed) THEN t.emptyHashed[i + 1] + 1 ELSE 1)]

RECURSIVE emptyLoop(_, _, _)
emptyLoop(t, i, level) == IF i <= level THEN emptyLoop(emptyFill(t, i), i + 1, level) ELSE t

emptyFrom_Recompute(t) == 1

\* line 132: the loop starts at emptyNodes.length
emptyFrom(t) == Len(t.emptyNodes)

\* lines 131-137: empty(level) on the table t; the table after the call and its value
empty(t, level) ==
    LET u == emptyLoop(t, emptyFrom(t), level)
    IN  [emptyNodes |-> u.emptyNodes, emptyHashed |-> u.emptyHashed,
         value |-> u.emptyNodes[level + 1]]

----------------------------------------------------------------------------
(* IndexedMerkleMap: node cache *)

\* nodes[level]?.[index]
NodeAt(ns, level, index) ==
    IF level + 1 \in DOMAIN ns /\ index \in DOMAIN ns[level + 1]
    THEN ns[level + 1][index] ELSE Undefined

\* nodes[level][index] = v on a sparse array
SetNode(ns, level, index, v) ==
    [ns EXCEPT ![level + 1] =
        [k \in DOMAIN ns[level + 1] \cup {index} |-> IF k = index THEN v ELSE ns[level + 1][k]]]

\* lines 114-125: getNode on the map state m (nodes and the global table)
getNode(m, level, index, nonEmpty) ==
    LET node == NodeAt(m.nodes, level, index)
    IN  IF node # Undefined THEN [m |-> m, node |-> node]
        ELSE IF nonEmpty
        THEN [m |-> [m EXCEPT !.err = "InvariantViolation"], node |-> Undefined]
        ELSE LET e == empty([emptyNodes |-> m.emptyNodes, emptyHashed |-> m.emptyHashed], level)
             IN  [m |-> [m EXCEPT !.emptyNodes = e.emptyNodes, !.emptyHashed = e.emptyHashed],
                  node |-> e.value]

setLeafLevel_SwappedChildren(m, level) ==
    LET index == m.index \div 2
        l == getNode(m, level - 1, index * 2, m.isLeft)
        r == getNode(l.m, level - 1, index * 2 + 1, ~m.isLeft)
    IN  IF l.m.err # "none" THEN l.m
        ELSE IF r.m.err # "none" THEN r.m
        ELSE [r.m EXCEPT !.nodes = SetNode(r.m.nodes, level, index, Hash(r.node, l.node)),
                         !.index = index,
                         !.isLeft = (index % 2 = 0)]

setLeafLevel_StaleIsLeft(m, level) ==
    LET index == m.index \div 2
        l == getNode(m, level - 1, index * 2, m.isLeft)
        r == getNode(l.m, level - 1, index * 2 + 1, ~m.isLeft)
    IN  IF l.m.err # "none" THEN l.m
        ELSE IF r.m.err # "none" THEN r.m
        ELSE [r.m EXCEPT !.nodes = SetNode(r.m.nodes, level, index, Hash(l.node, r.node)),
                         !.index = index]

\* lines 104-110: one pass of the loop of setLeafNode
setLeafLevel(m, level) ==
    LET index == m.index \div 2
        l == getNode(m, level - 1, index * 2, m.isLeft)
        r == getNode(l.m, level - 1, index * 2 + 1, ~m.isLeft)
    IN  IF l.m.err # "none" THEN l.m
        ELSE IF r.m.err # "none" THEN r.m
        ELSE [r.m EXCEPT !.nodes = SetNode(r.m.nodes, level, index, Hash(l.node, r.node)),
                         !.index = index,
                         !.isLeft = (index % 2 = 0)]

RECURSIVE setLeafLoop(_, _, _)
setLeafLoop(m, level, h) ==
    IF level < h /\ m.err = "none" THEN setLeafLoop(setLeafLevel(m, level), level + 1, h) ELSE m

\* lines 97-112: setLeafNode(index, leaf)
setLeafNode(index, leaf) ==
    LET m0 == [nodes |-> SetNode(nodes, 0, index, leaf),
               emptyNodes |-> emptyNodes, emptyHashed |-> emptyHashed,
               index |-> index, isLeft |-> (index % 2 = 0), err |-> "none"]
    IN  setLeafLoop(m0, 1, height)

EmptyFunction == [k \in {} |-> Undefined]

\* the leaf hashes written
LeafHashes == {1, 2}

\* lines 58-70: new IndexedMerkleMap(h)
Construct(h) ==
    /\ LET e == empty([emptyNodes |-> emptyNodes, emptyHashed |-> emptyHashed], h - 1)
       IN  /\ root' = e.value
           /\ emptyRet' = [level |-> h - 1, value |-> e.value]
           /\ emptyNodes' = e.emptyNodes
           /\ emptyHashed' = e.emptyHashed
    /\ height' = h
    /\ nodes' = [level \in 1..h |-> EmptyFunction]
    /\ written' = EmptyFunction
    /\ mapErr' = "none"
    /\ UNCHANGED <<bisectVars, gadgetVars>>

SetLeafNode(index, leaf) ==
    /\ LET m == setLeafNode(index, leaf)
       IN  /\ nodes' = m.nodes
           /\ emptyNodes' = m.emptyNodes
           /\ emptyHashed' = m.emptyHashed
           /\ mapErr' = m.err
    /\ written' = [k \in DOMAIN written \cup {index} |-> IF k = index THEN leaf ELSE written[k]]
    /\ UNCHANGED <<root, height, emptyRet, bisectVars, gadgetVars>>

\* a direct call of empty(level), as any map instance may make
EmptyCall(level) ==
    /\ LET e == empty([emptyNodes |-> emptyNodes, emptyHashed |-> emptyHashed], level)
       IN  /\ emptyRet' = [level |-> level, value |-> e.value]
           /\ emptyNodes' = e.emptyNodes
           /\ emptyHashed' = e.emptyHashed
    /\ UNCHANGED <<root, height, nodes, written, mapErr, bisectVars, gadgetVars>>

----------------------------------------------------------------------------
(* Range-check gadgets.  A bigint is the set of positions of its 1 bits, so *)
(* that 88- and 176-bit values keep their width.                           *)

L == 88
twoL == 2 * L

\* xx >> k
Shr(v, k) == {b - k : b \in {c \in v : c >= k}}
\* xx & ((1n << k) - 1n)
Mask(v, k) == {b \in v : b < k}
\* bitSlice(x, start, length) = (x >> start) & ((1n << length) - 1n)
bitSlice(x, start, length) == Mask(Shr(x, start), length)

\* a Field: Constant (id 0) or Variable (a handle, with its witness value)
Const(v) == [const |-> TRUE, id |-> 0, val |-> v]
Var(i, v) == [const |-> FALSE, id |-> i, val |-> v]

\* exists(n, compute): n fresh variables seeded with the values computed
exists(first, vals) == [k \in 1..Len(vals) |-> Var(first + k - 1, vals[k])]

NoErr == [kind |-> "none", values |-> <<>>]
RangeViolation(fields) == [kind |-> "RangeViolation", values |-> fields]

\* the first handle exists() gives out in a gadget call; arguments hold 1..3
FirstVar == 4

Crumbs8(xx) == <<bitSlice(xx, 0, 2), bitSlice(xx, 2, 2), bitSlice(xx, 4, 2), bitSlice(xx, 6, 2),
                 bitSlice(xx, 8, 2), bitSlice(xx, 10, 2), bitSlice(xx, 12, 2), bitSlice(xx, 14, 2)>>

rangeCheck64Constant_Ascending(x) ==
    IF Shr(x.val, 64) # {}
    THEN [ret |-> <<>>, err |-> RangeViolation(<<x>>), gates |-> <<>>]
    ELSE [ret |-> <<Const(bitSlice(x.val, 16, 12)), Const(bitSlice(x.val, 28, 12)),
                    Const(bitSlice(x.val, 40, 12)), Const(bitSlice(x.val, 52, 12))>>,
          err |-> NoErr, gates |-> <<>>]

\* lines 15-25: the Constant case of rangeCheck64
rangeCheck64Constant(x) ==
    IF Shr(x.val, 64) # {}
    THEN [ret |-> <<>>, err |-> RangeViolation(<<x>>), gates |-> <<>>]
    ELSE [ret |-> <<Const(bitSlice(x.val, 52, 12)), Const(bitSlice(x.val, 40, 12)),
                    Const(bitSlice(x.val, 28, 12)), Const(bitSlice(x.val, 16, 12))>>,
          err |-> NoErr, gates |-> <<>>]

\* lines 13-62
rangeCheck64(x) ==
    IF x.const
    THEN rangeCheck64Constant(x)
    ELSE LET c == exists(FirstVar, Crumbs8(x.val))
             l == exists(FirstVar + 8, <<bitSlice(x.val, 16, 12), bitSlice(x.val, 28, 12),
                                         bitSlice(x.val, 40, 12), bitSlice(x.val, 52, 12)>>)
         IN  [ret |-> <<l[4], l[3], l[2], l[1]>>,
              err |-> NoErr,
              gates |-> << [gate |-> "rangeCheck0", x |-> x,
                            limbs |-> <<Const({}), Const({}), l[4], l[3], l[2], l[1]>>,
                            crumbs |-> <<c[8], c[7], c[6], c[5], c[4], c[3], c[2], c[1]>>,
                            compact |-> FALSE] >>]

\* lines 117-156: the gate emitted, the pair [x64, x76] returned, the next free handle
rangeCheck0Helper(x, isCompact, first) ==
    LET c == exists(first, Crumbs8(x.val))
        l == exists(first + 8, <<bitSlice(x.val, 16, 12), bitSlice(x.val, 28, 12),
                                 bitSlice(x.val, 40, 12), bitSlice(x.val, 52, 12),
                                 bitSlice(x.val, 64, 12), bitSlice(x.val, 76, 12)>>)
    IN  [gate |-> [gate |-> "rangeCheck0", x |-> x,
                   limbs |-> <<l[6], l[5], l[4], l[3], l[2], l[1]>>,
                   crumbs |-> <<c[8], c[7], c[6], c[5], c[4], c[3], c[2], c[1]>>,
                   compact |-> isCompact],
         ret |-> <<l[5], l[6]>>,
         next |-> first + 14]

rangeCheck1Helper_SwappedLimbs(x64, x76, y64, y76, z, yz, first) ==
    LET zz == z.val
        a == exists(first, <<bitSlice(zz, 22, 2), bitSlice(zz, 24, 2), bitSlice(zz, 26, 2),
                             bitSlice(zz, 28, 2), bitSlice(zz, 30, 2), bitSlice(zz, 32, 2),
                             bitSlice(zz, 34, 2), bitSlice(zz, 36, 2), bitSlice(zz, 38, 12),
                             bitSlice(zz, 50, 12), bitSlice(zz, 62, 12), bitSlice(zz, 74, 12),
                             bitSlice(zz, 86, 2)>>)
        b == exists(first + 13, <<bitSlice(zz, 0, 2), bitSlice(zz, 2, 2), bitSlice(zz, 4, 2),
                                  bitSlice(zz, 6, 2), bitSlice(zz, 8, 2), bitSlice(zz, 10, 2),
                                  bitSlice(zz, 12, 2), bitSlice(zz, 14, 2), bitSlice(zz, 16, 2),
                                  bitSlice(zz, 18, 2), bitSlice(zz, 20, 2)>>)
    IN  [gate |-> "rangeCheck1", z |-> z, yz |-> yz,
         cur |-> <<a[13], a[12], a[11], a[10], a[9], a[8], a[7], a[6], a[5], a[4], a[3], a[2], a[1]>>,
         next |-> <<b[11], b[10], b[9], x64, x76, y64, y76,
                    b[8], b[7], b[6], b[5], b[4], b[3], b[2], b[1]>>]

\* lines 158-213: the one rangeCheck1 gate emitted
rangeCheck1Helper(x64, x76, y64, y76, z, yz, first) ==
    LET zz == z.val
        a == exists(first, <<bitSlice(zz, 22, 2), bitSlice(zz, 24, 2), bitSlice(zz, 26, 2),
                             bitSlice(zz, 28, 2), bitSlice(zz, 30, 2), bitSlice(zz, 32, 2),
                             bitSlice(zz, 34, 2), bitSlice(zz, 36, 2), bitSlice(zz, 38, 12),
                             bitSlice(zz, 50, 12), bitSlice(zz, 62, 12), bitSlice(zz, 74, 12),
                             bitSlice(zz, 86, 2)>>)
        b == exists(first + 13, <<bitSlice(zz, 0, 2), bitSlice(zz, 2, 2), bitSlice(zz, 4, 2),
                                  bitSlice(zz, 6, 2), bitSlice(zz, 8, 2), bitSlice(zz, 10, 2),
                                  bitSlice(zz, 12, 2), bitSlice(zz, 14, 2), bitSlice(zz, 16, 2),
                                  bitSlice(zz, 18, 2), bitSlice(zz, 20, 2)>>)
    IN  [gate |-> "rangeCheck1", z |-> z, yz |-> yz,
         cur |-> <<a[13], a[12], a[11], a[10], a[9], a[8], a[7], a[6], a[5], a[4], a[3], a[2], a[1]>>,
         next |-> <<b[11], b[10], b[9], x76, x64, y76, y64,
                    b[8], b[7], b[6], b[5], b[4], b[3], b[2], b[1]>>]

multiRangeCheckConstant_ForgetsZ(x, y, z) ==
    IF Shr(x.val, L) # {} \/ Shr(y.val, L) # {}
    THEN [ret |-> <<>>, err |-> RangeViolation(<<x, y, z>>), gates |-> <<>>]
    ELSE [ret |-> <<>>, err |-> NoErr, gates |-> <<>>]

\* lines 74-77: the Constant case of multiRangeCheck
multiRangeCheckConstant(x, y, z) ==
    IF Shr(x.val, L) # {} \/ Shr(y.val, L) # {} \/ Shr(z.val, L) # {}
    THEN [ret |-> <<>>, err |-> RangeViolation(<<x, y, z>>), gates |-> <<>>]
    ELSE [ret |-> <<>>, err |-> NoErr, gates |-> <<>>]

\* lines 72-83
multiRangeCheck(x, y, z) ==
    IF x.const /\ y.const /\ z.const
    THEN multiRangeCheckConstant(x, y, z)
    ELSE LET hx == rangeCheck0Helper(x, FALSE, FirstVar)
             hy == rangeCheck0Helper(y, FALSE, hx.next)
             g == rangeCheck1Helper(hx.ret[1], hx.ret[2], hy.ret[1], hy.ret[2],
                                    z, Const({}), hy.next)
         IN  [ret |-> <<>>, err |-> NoErr, gates |-> <<hx.gate, hy.gate, g>>]

splitCompactLimb_Swapped(x01) == <<Shr(x01, L), Mask(x01, L)>>

\* lines 113-115
splitCompactLimb(x01) == <<Mask(x01, L), Shr(x01, L)>>

\* lines 92-111
compactMultiRangeCheck(xy, z) ==
    IF xy.const /\ z.const
    THEN IF Shr(xy.val, twoL) # {} \/ Shr(z.val, L) # {}
         THEN [ret |-> <<>>, err |-> RangeViolation(<<xy, z>>), gates |-> <<>>]
         ELSE LET s == splitCompactLimb(xy.val)
              IN  [ret |-> <<Const(s[1]), Const(s[2]), z>>, err |-> NoErr, gates |-> <<>>]
    ELSE LET s == exists(FirstVar, splitCompactLimb(xy.val))
             x == s[1]
             y == s[2]
             hz == rangeCheck0Helper(z, FALSE, FirstVar + 2)
             hx == rangeCheck0Helper(x, TRUE, hz.next)
             g == rangeCheck1Helper(hz.ret[1], hz.ret[2], hx.ret[1], hx.ret[2], y, xy, hx.next)
         IN  [ret |-> <<x, y, z>>, err |-> NoErr, gates |-> <<hz.gate, hx.gate, g>>]

\* Arguments: bit positions around every limb boundary the gadgets use
Bits88 == {0, 16, 52, 63, 64, 76, 87, 88}
BitsXY == Bits88 \cup {164, 175, 176}

\* the sets of at most k elements of S
RECURSIVE UpTo(_, _)
UpTo(S, k) == IF k = 0 THEN {{}} ELSE LET P == UpTo(S, k - 1) IN P \cup {p \cup {e} : p \in P, e \in S}

\* arguments as sets of <<bit, argument>> with at most MaxBits bits in all
Inputs1 == UpTo(Bits88 \X {1}, MaxBits)
Inputs2 == UpTo((BitsXY \X {1}) \cup (Bits88 \X {2}), MaxBits)
Inputs3 == UpTo(Bits88 \X {1, 2, 3}, MaxBits)

ArgVal(T, k) == {p[1] : p \in {q \in T : q[2] = k}}
\* argument k of a call: a Constant, or the Variable with handle k
Arg(T, k, isConst) == IF isConst THEN Const(ArgVal(T, k)) ELSE Var(k, ArgVal(T, k))

Return(name, a, r) ==
    /\ op' = name
    /\ args' = a
    /\ ret' = r.ret
    /\ err' = r.err
    /\ gates' = r.gates
    /\ UNCHANGED <<bisectVars, mapVars>>

RangeCheck64(T, c1) ==
    /\ op = "none"
    /\ LET x == Arg(T, 1, c1) IN Return("rangeCheck64", <<x>>, rangeCheck64(x))

MultiRangeCheck(T, c1, c2, c3) ==
    /\ op = "none"
    /\ LET x == Arg(T, 1, c1)
           y == Arg(T, 2, c2)
           z == Arg(T, 3, c3)
       IN  Return("multiRangeCheck", <<x, y, z>>, multiRangeCheck(x, y, z))

CompactMultiRangeCheck(T, c1, c2) ==
    /\ op = "none"
    /\ LET xy == Arg(T, 1, c1)
           z == Arg(T, 2, c2)
       IN  Return("compactMultiRangeCheck", <<xy, z>>, compactMultiRangeCheck(xy, z))

----------------------------------------------------------------------------
InitBisect ==
    /\ values = <<>> /\ target = 0 /\ outOfRange = "undefined" /\ bPc = "idle"
    /\ iLow = 0 /\ iHigh = 0 /\ bRet = NoRet /\ bErr = "none" /\ iters = 0

\* module load (emptyNodes = [0n]) followed by new IndexedMerkleMap(1)
InitMap ==
    /\ emptyNodes = <<0>> /\ emptyHashed = <<0>> /\ emptyRet = [level |-> 0, value |-> 0]
    /\ height = 1 /\ root = 0 /\ nodes = <<EmptyFunction>>
    /\ written = EmptyFunction /\ mapErr = "none"

InitGadgets ==
    /\ op = "none" /\ args = <<>> /\ ret = <<>> /\ err = NoErr /\ gates = <<>>

Init == InitBisect /\ InitMap /\ InitGadgets

\* one call of bisectUnique, then its loop
NextBisect ==
    \/ /\ bPc = "idle"
       /\ \E seq \in Sequences, t \in 0..MaxKey, oob \in {"undefined", "throw"} :
             BisectCall(seq, t, oob)
    \/ BisectLoop

NextMap ==
    \/ \E h \in 1..MaxHeight : Construct(h)
    \/ \E index \in 0..MaxIndex, leaf \in LeafHashes : SetLeafNode(index, leaf)
    \/ \E level \in 0..MaxHeight : EmptyCall(level)

\* one gadget call on a fresh constraint system
NextGadgets ==
    \/ /\ op = "none"
       /\ \E T \in Inputs1, c1 \in BOOLEAN : RangeCheck64(T, c1)
    \/ /\ op = "none"
       /\ \E T \in Inputs3, c1 \in BOOLEAN, c2 \in BOOLEAN, c3 \in BOOLEAN :
             MultiRangeCheck(T, c1, c2, c3)
    \/ /\ op = "none"
       /\ \E T \in Inputs2, c1 \in BOOLEAN, c2 \in BOOLEAN : CompactMultiRangeCheck(T, c1, c2)

SpecBisect == Init /\ [][NextBisect]_vars
SpecMap == Init /\ [][NextMap]_vars
SpecGadgets == Init /\ [][NextGadgets]_vars

----------------------------------------------------------------------------
(* Properties of bisectUnique *)

\* the brute-force linear scan: max {i : seq[i] <= t} (or -1), and whether t is there
LinearScan(seq, t) ==
    LET C == {i \in 0..(Len(seq) - 1) : seq[i + 1] <= t}
    IN  [lowIndex |-> IF C = {} THEN -1 ELSE Max(C),
         foundValue |-> \E i \in C : seq[i + 1] = t]

\* C1: on a strictly increasing sequence of length n >= 1, bisectUnique returns
\* what a linear scan returns: (-1, false) below S[0], (n-1, false) above S[n-1],
\* else (i, found) with S[i] <= t, (i = n-1 or t < S[i+1]) and found iff S[i] = t.
C1_BisectMatchesLinearScan ==
    (bPc = "done" /\ Len(values) >= 1) =>
        LET n == Len(values)
            i == bRet.lowIndex
        IN  /\ bErr = "none"
            /\ bRet = LinearScan(values, target)
            /\ target < values[1] => bRet = [lowIndex |-> -1, foundValue |-> FALSE]
            /\ target > values[n] => bRet = [lowIndex |-> n - 1, foundValue |-> FALSE]
            /\ (target >= values[1] /\ target <= values[n]) =>
                  /\ i \in 0..(n - 1)
                  /\ values[i + 1] <= target
                  /\ (i = n - 1 \/ target < values[i + 2])
                  /\ bRet.foundValue <=> (values[i + 1] = target)

\* a search that went through the loop and found its target in the middle
C1_Witness ==
    /\ bPc = "done" /\ bErr = "none"
    /\ Len(values) = 4 /\ iters >= 2
    /\ bRet.foundValue /\ bRet.lowIndex = 2

\* C8: bisectUnique terminates for every length, n = 0 included (result -1):
\* in the loop 0 <= iLow <= iHigh < n, the interval shrinks with every
\* iteration, and at most n - 1 iterations go round.
C8_BisectTerminates ==
    /\ bPc = "loop" =>
          /\ 0 <= iLow /\ iLow <= iHigh /\ iHigh < Len(values)
          /\ iters <= Len(values) - 1
    /\ (bPc = "done" /\ Len(values) = 0) => (bErr = "none" /\ bRet.lowIndex = -1)

----------------------------------------------------------------------------
(* Properties of the node cache, the root and the empty-node table *)

\* empty(level) as the recurrence defines it
RECURSIVE EmptyHash(_)
EmptyHash(level) == IF level = 0 THEN 0 ELSE Hash(EmptyHash(level - 1), EmptyHash(level - 1))

\* a cache entry, an absent one reading as the empty subtree of its level
ReadNode(level, index) ==
    IF NodeAt(nodes, level, index) = Undefined THEN EmptyHash(level)
    ELSE NodeAt(nodes, level, index)

\* C2: the node cache is a consistent Merkle tree: level 0 holds the last leaf
\* written to each index, and every cached entry above is the hash of its two
\* children, absent children reading as empty.
C2_CacheIsMerkleTree ==
    /\ \A i \in DOMAIN written : NodeAt(nodes, 0, i) = written[i]
    /\ \A level \in 1..(height - 1) : \A k \in DOMAIN nodes[level + 1] :
          nodes[level + 1][k] = Hash(ReadNode(level - 1, 2 * k), ReadNode(level - 1, 2 * k + 1))

\* height 4, leaves h0 = 1 and h1 = 2 at indices 0 and 1
C2_Witness ==
    /\ height = 4
    /\ DOMAIN written = {0, 1} /\ written[0] = 1 /\ written[1] = 2
    /\ NodeAt(nodes, 3, 0) = Hash(Hash(Hash(1, 2), EmptyHash(1)), EmptyHash(2))

\* C3: the root summarizes the node cache: it is empty(H-1) after construction
\* and the top-level hash getNode(H-1, 0, false) after every setLeafNode; for
\* H = 4 and leaves h0, h1 at 0 and 1 it is hash(hash(hash(h0,h1),empty(1)),empty(2)).
C3_RootSummarizesCache ==
    /\ root = ReadNode(height - 1, 0)
    /\ (height = 4 /\ DOMAIN written = {0, 1}) =>
          root = Hash(Hash(Hash(written[0], written[1]), EmptyHash(1)), EmptyHash(2))

EmptyTableOk ==
    /\ emptyNodes[1] = 0
    /\ \A i \in 2..Len(emptyNodes) : emptyNodes[i] = Hash(emptyNodes[i - 1], emptyNodes[i - 1])
    /\ \A i \in 1..Len(emptyHashed) : emptyHashed[i] <= 1
    /\ emptyRet.level + 1 \in 1..Len(emptyNodes)
    /\ emptyRet.value = EmptyHash(emptyRet.level)

EmptyTableKept ==
    \A i \in 1..Len(emptyNodes) : i <= Len(emptyNodes') /\ emptyNodes'[i] = emptyNodes[i]

\* C7: the empty-node table is append-only and deterministic: every call of
\* empty(level) returns the value of the recurrence empty(0) = 0,
\* empty(l) = hash(empty(l-1), empty(l-1)); an entry is computed once and no
\* later call changes or removes it.
C7_EmptyTableAppendOnly == []EmptyTableOk /\ [][EmptyTableKept]_vars

\* the table filled up to level 3, every entry hashed once, under a map of height 4
C7_Witness ==
    /\ Len(emptyNodes) = 4 /\ height = 4
    /\ emptyRet = [level |-> 3, value |-> EmptyHash(3)]
    /\ \A i \in 2..4 : emptyHashed[i] = 1

\* C10: setLeafNode never trips the InvariantViolation of getNode: every node
\* it asks for with nonEmpty = true is the one it wrote just before.
C10_SetLeafNodeNeverThrows == mapErr = "none"

\* right and left leaves written in a map of height 3 and all four paths hashed
C10_Witness ==
    /\ height = 3 /\ mapErr = "none"
    /\ DOMAIN written = {0, 1, 2, 3}
    /\ NodeAt(nodes, 1, 0) # Undefined /\ NodeAt(nodes, 1, 1) # Undefined
    /\ NodeAt(nodes, 2, 0) # Undefined

----------------------------------------------------------------------------
(* Properties of the range-check gadgets *)

Below(v, k) == \A b \in v : b < k
\* x + 2^88 * y for x < 2^88: no carries
Pack(x, y) == x \cup {b + L : b \in y}

\* C5: rangeCheck64 on a Constant x < 2^64 returns the 12-bit limbs at bits
\* 52, 40, 28, 16, in that order, and emits no gate; on x >= 2^64 it fails
\* with a RangeViolation reporting x and returns nothing.
C5_RangeCheck64Constant ==
    (op = "rangeCheck64" /\ args[1].const) =>
        LET x == args[1].val
        IN  /\ gates = <<>>
            /\ IF Below(x, 64)
               THEN /\ err = NoErr
                    /\ ret = <<Const(bitSlice(x, 52, 12)), Const(bitSlice(x, 40, 12)),
                               Const(bitSlice(x, 28, 12)), Const(bitSlice(x, 16, 12))>>
                    /\ \A k \in 1..4 : Below(ret[k].val, 12)
                    /\ \A b \in 16..63 : b \in x <=> ((b - 16) % 12) \in ret[4 - ((b - 16) \div 12)].val
               ELSE /\ err = RangeViolation(<<args[1]>>)
                    /\ ret = <<>>

\* x = 2^63 + 2^16: the limbs are (2^11, 0, 0, 1)
C5_Witness ==
    /\ op = "rangeCheck64" /\ args[1].const /\ args[1].val = {16, 63}
    /\ err = NoErr
    /\ ret = <<Const({11}), Const({}), Const({}), Const({0})>>

\* C6: multiRangeCheck on three Constants returns without failure and without
\* a gate when all are below 2^88, and fails with a RangeViolation reporting
\* all three when one of them is not.
C6_MultiRangeCheckConstant ==
    (op = "multiRangeCheck" /\ \A k \in 1..3 : args[k].const) =>
        /\ gates = <<>>
        /\ ret = <<>>
        /\ IF \A k \in 1..3 : Below(args[k].val, L)
           THEN err = NoErr
           ELSE err = RangeViolation(<<args[1], args[2], args[3]>>)

\* only z is out of range
C6_Witness ==
    /\ op = "multiRangeCheck" /\ \A k \in 1..3 : args[k].const
    /\ args[1].val = {87} /\ args[2].val = {0} /\ args[3].val = {88}
    /\ err.kind = "RangeViolation" /\ err.values[3].val = {88}

\* C4: on Constants, compactMultiRangeCheck(x + y * 2^88, z) with
\* x, y, z < 2^88 returns exactly (x, y, z); with xy >= 2^176 or z >= 2^88 it
\* fails with a RangeViolation and returns nothing.
C4_CompactRoundTrip ==
    (op = "compactMultiRangeCheck" /\ args[1].const /\ args[2].const) =>
        /\ gates = <<>>
        /\ IF Below(args[1].val, twoL) /\ Below(args[2].val, L)
           THEN /\ err = NoErr
                /\ Len(ret) = 3
                /\ ret[1].const /\ ret[2].const
                /\ Below(ret[1].val, L) /\ Below(ret[2].val, L)
                /\ Pack(ret[1].val, ret[2].val) = args[1].val
                /\ ret[3] = args[2]
           ELSE /\ err = RangeViolation(<<args[1], args[2]>>)
                /\ ret = <<>>

\* x = 2^87, y = 2^87 + 1 (xy = 2^175 + 2^88 + 2^87), z = 0
C4_Witness ==
    /\ op = "compactMultiRangeCheck" /\ args[1].const /\ args[2].const
    /\ args[1].val = {87, 88, 175} /\ args[2].val = {}
    /\ ret = <<Const({87}), Const({0, 87}), Const({})>>

IsVar(f, v) == ~f.const /\ f.id >= FirstVar /\ f.val = v

\* the deferred limbs (76, 64) of the value a rangeCheck0 gate decomposes
Deferred(g) == <<g.limbs[1], g.limbs[2]>>
DeferredOk(g) ==
    /\ IsVar(g.limbs[1], bitSlice(g.x.val, 76, 12))
    /\ IsVar(g.limbs[2], bitSlice(g.x.val, 64, 12))
    /\ g.limbs[1].id # g.limbs[2].id

\* C9: with an argument that is not a Constant the multi-range-check gadgets
\* raise no error and emit exactly rangeCheck0, rangeCheck0, rangeCheck1:
\* multiRangeCheck on x, y (not compact) then z with yz = 0, the next row
\* carrying x's limbs (76, 64) then y's; compactMultiRangeCheck on z (not
\* compact), x (compact) then y with yz = xy, the next row carrying z's limbs
\* (76, 64) then x's, where (x, y) is the witnessed split of xy.
C9_VariablePathGates ==
    /\ (op = "multiRangeCheck" /\ \E k \in 1..3 : ~args[k].const) =>
          /\ err = NoErr /\ ret = <<>>
          /\ Len(gates) = 3
          /\ gates[1].gate = "rangeCheck0" /\ gates[1].x = args[1] /\ ~gates[1].compact
          /\ gates[2].gate = "rangeCheck0" /\ gates[2].x = args[2] /\ ~gates[2].compact
          /\ gates[3].gate = "rangeCheck1" /\ gates[3].z = args[3] /\ gates[3].yz = Const({})
          /\ DeferredOk(gates[1]) /\ DeferredOk(gates[2])
          /\ SubSeq(gates[3].next, 4, 7) = Deferred(gates[1]) \o Deferred(gates[2])
    /\ (op = "compactMultiRangeCheck" /\ \E k \in 1..2 : ~args[k].const) =>
          /\ err = NoErr
          /\ Len(ret) = 3
          /\ IsVar(ret[1], Mask(args[1].val, L))
          /\ IsVar(ret[2], Shr(args[1].val, L))
          /\ ret[3] = args[2]
          /\ Len(gates) = 3
          /\ gates[1].gate = "rangeCheck0" /\ gates[1].x = args[2] /\ ~gates[1].compact
          /\ gates[2].gate = "rangeCheck0" /\ gates[2].x = ret[1] /\ gates[2].compact
          /\ gates[3].gate = "rangeCheck1" /\ gates[3].z = ret[2] /\ gates[3].yz = args[1]
          /\ DeferredOk(gates[1]) /\ DeferredOk(gates[2])
          /\ SubSeq(gates[3].next, 4, 7) = Deferred(gates[1]) \o Deferred(gates[2])

\* compactMultiRangeCheck on a Variable xy = 2^88 + 2^76 and a Constant
\* z = 2^87: the four deferred limbs handed over are 2^11, 0, 1, 0
C9_Witness ==
    /\ op = "compactMultiRangeCheck" /\ ~args[1].const /\ args[2].const
    /\ args[1].val = {76, 88} /\ args[2].val = {87}
    /\ Len(gates) = 3
    /\ [k \in 1..4 |-> gates[3].next[k + 3].val] = <<{11}, {}, {0}, {}>>

====
